---- MODULE Spec2Model ----
(***************************************************************************)
(* Electricity bill processor: upload batches, bill records and the batch  *)
(* progress tracker (server/src/handlers).  The database tables are the    *)
(* state; every handler is an action.  Spec runs whole handlers one after  *)
(* the other; ConcSpec splits updateBillResult and                         *)
(* updateUploadBatchProgress at their awaits (one database statement per   *)
(* step) so that calls interleave.                                         *)
(***************************************************************************)
EXTENDS Integers, Sequences, FiniteSets, Bags, TLC

(* ---------------- bounds ---------------- *)
MaxBatches == 1
MaxFileCount == 2
MaxBills == 2
MaxProcessed == 2
MaxTicks == 1
MaxCalls == 3
MaxUploads == 2
MaxLines == 3

(* ---------------- values ---------------- *)
\* SQL NULL of a numeric / timestamp column, and of a text column
Null == -1
NullText == "<null>"
\* a property that the input object does not carry (JavaScript undefined)
Undefined == -2
UndefinedText == "<undefined>"

\* response of a handler whose return value is not followed here, or that
\* threw
NoResponse == [op |-> "none"]

(* ---------------- calendar (JavaScript Date, UTC, day resolution) ------ *)
BaseYear == 2023

IsLeap(y) == (y % 4 = 0 /\ y % 100 # 0) \/ y % 400 = 0

DaysInMonth(y, m) ==
  CASE m \in {1, 3, 5, 7, 8, 10, 12} -> 31
    [] m \in {4, 6, 9, 11} -> 30
    [] OTHER -> IF IsLeap(y) THEN 29 ELSE 28

RECURSIVE DaysBeforeMonth(_, _)
DaysBeforeMonth(y, m) ==
  IF m <= 1 THEN 0 ELSE DaysBeforeMonth(y, m - 1) + DaysInMonth(y, m - 1)

RECURSIVE DaysBeforeYear(_)
DaysBeforeYear(y) ==
  IF y <= BaseYear THEN 0
  ELSE DaysBeforeYear(y - 1) + (IF IsLeap(y - 1) THEN 366 ELSE 365)

\* new Date('y-m-d'): the number of days since BaseYear-01-01
Day(y, m, d) == DaysBeforeYear(y) + DaysBeforeMonth(y, m) + (d - 1)

\* the clock at the start of a run
StartDate == Day(2023, 8, 31)

(* ---------------- state ---------------- *)
VARIABLES
  uploadBatches,     \* upload_batches table: row id = index
  electricityBills,  \* electricity_bills table: row id = index
  now,               \* what new Date() returns
  calls,             \* ConcSpec: the bag of in-flight and finished handler calls
  lastError,         \* how the handler that ran last ended: the error it threw
  selicRates,        \* selic_rates table: row id = index
  loadResult,        \* what the last loadSelicData run returned
  response           \* what the last query (status, report, rates) returned

vars == <<uploadBatches, electricityBills, now, calls, lastError, selicRates,
          loadResult, response>>

Terminal == {"success", "error"}

(* ---------------- uploadZip ---------------- *)
\* input.filename of uploadZip: the name of the ZIP
ZipFilename == <<"bills", "zip">>

\* values(...) of the batch insert; created_at and completed_at are left to
\* their column defaults, defaultNow() and NULL
NewUploadBatch(file_count) ==
  [filename |-> ZipFilename, total_files |-> file_count,
   processed_files |-> 0, failed_files |-> 0,
   status |-> "processing", created_at |-> now, completed_at |-> Null]

\* values(...) of a bill insert: the columns not named are NULL, created_at
\* is defaultNow()
NewBill(upload_id, filename) ==
  [filename |-> filename, upload_id |-> upload_id,
   total_amount |-> Null, energy_consumption |-> Null, bill_date |-> Null,
   corrected_amount |-> Null, extraction_status |-> "pending",
   error_message |-> NullText, created_at |-> now]

\* a variant that creates one record less than the ZIP has files
BillRecords_oneShort(upload_id, file_count) ==
  [index \in 1..(file_count - 1) |->
     NewBill(upload_id, <<"bill_" \o ToString(index), "pdf">>)]

\* Array.from({length: file_count}, ...): bill_1.pdf .. bill_n.pdf
BillRecords(upload_id, file_count) ==
  [index \in 1..file_count |->
     NewBill(upload_id, <<"bill_" \o ToString(index), "pdf">>)]

UploadZip(file_count) ==
  /\ LET upload_id == Len(uploadBatches) + 1 IN
       /\ uploadBatches' = Append(uploadBatches, NewUploadBatch(file_count))
       /\ electricityBills' = electricityBills \o BillRecords(upload_id, file_count)
       /\ lastError' = "none"
  /\ UNCHANGED <<now, calls,
               selicRates, loadResult>>
  /\ response' = NoResponse

(* ---------------- updateUploadBatchProgress ---------------- *)
\* a variant in which a failed file puts the whole batch in status failed
ProgressUpdateData_failureHalts(batch, isSuccess) ==
  LET newProcessedFiles == batch.processed_files + 1
      newFailedFiles == batch.failed_files + (IF isSuccess THEN 0 ELSE 1)
      isComplete == newProcessedFiles >= batch.total_files
  IN [processed_files |-> newProcessedFiles,
      failed_files |-> newFailedFiles,
      status |-> IF ~isSuccess THEN "failed"
                 ELSE IF isComplete THEN "completed" ELSE "processing",
      completed_at |-> IF isComplete THEN now ELSE Undefined]

\* lines 103-121: the update object computed from the batch row that was read
ProgressUpdateData(batch, isSuccess) ==
  LET newProcessedFiles == batch.processed_files + 1
      newFailedFiles == batch.failed_files + (IF isSuccess THEN 0 ELSE 1)
      isComplete == newProcessedFiles >= batch.total_files
  IN [processed_files |-> newProcessedFiles,
      failed_files |-> newFailedFiles,
      status |-> IF isComplete THEN "completed" ELSE "processing",
      completed_at |-> IF isComplete THEN now ELSE Undefined]

\* lines 124-127: update ... set(updateData) applied to the stored row
\* a variant that also writes total_files
SetBatch_writesTotalFiles(row, updateData) ==
  [row EXCEPT !.total_files = updateData.processed_files,
              !.processed_files = updateData.processed_files,
              !.failed_files = updateData.failed_files,
              !.status = updateData.status,
              !.completed_at = IF updateData.completed_at = Undefined
                               THEN @ ELSE updateData.completed_at]

SetBatch(row, updateData) ==
  [row EXCEPT !.processed_files = updateData.processed_files,
              !.failed_files = updateData.failed_files,
              !.status = updateData.status,
              !.completed_at = IF updateData.completed_at = Undefined
                               THEN @ ELSE updateData.completed_at]

\* the batch table after updateUploadBatchProgress(uploadId, isSuccess) ran
\* without interruption
BatchesAfterProgress(uploadId, isSuccess) ==
  [uploadBatches EXCEPT ![uploadId] =
     SetBatch(@, ProgressUpdateData(uploadBatches[uploadId], isSuccess))]

UpdateUploadBatchProgress(uploadId, isSuccess) ==
  /\ IF uploadId \notin DOMAIN uploadBatches
     THEN /\ UNCHANGED uploadBatches
          /\ lastError' = "not_found"
     ELSE /\ uploadBatches' = BatchesAfterProgress(uploadId, isSuccess)
          /\ lastError' = "none"
  /\ UNCHANGED <<electricityBills, now, calls,
               selicRates, loadResult>>
  /\ response' = NoResponse

(* ---------------- updateBillResult ---------------- *)
\* total_amount.toString() into a numeric column and back: the amounts used
\* here are whole numbers of 10^-6 units, which the column keeps as they are
NumericColumn(x) == x

\* line 45: input.corrected_amount ? input.corrected_amount.toString() : null
CorrectedAmountColumn(x) == IF x = Null \/ x = 0 THEN Null ELSE x

\* a variant whose update object names every column, null for what the
\* input omits
SetBill_resetsOmitted(row, input) ==
  [row EXCEPT
     !.extraction_status = input.extraction_status,
     !.total_amount = IF input.total_amount = Undefined THEN Null
                      ELSE NumericColumn(input.total_amount),
     !.energy_consumption = IF input.energy_consumption = Undefined THEN Null
                            ELSE NumericColumn(input.energy_consumption),
     !.bill_date = IF input.bill_date = Undefined THEN Null
                   ELSE input.bill_date,
     !.corrected_amount = IF input.corrected_amount = Undefined THEN Null
                          ELSE CorrectedAmountColumn(input.corrected_amount),
     !.error_message = IF input.error_message = UndefinedText THEN NullText
                       ELSE input.error_message]

\* lines 30-56: the bill row after set(updateData)
SetBill(row, input) ==
  [row EXCEPT
     !.extraction_status = input.extraction_status,
     !.total_amount = IF input.total_amount = Undefined THEN @
                      ELSE NumericColumn(input.total_amount),
     !.energy_consumption = IF input.energy_consumption = Undefined THEN @
                            ELSE NumericColumn(input.energy_consumption),
     !.bill_date = IF input.bill_date = Undefined THEN @ ELSE input.bill_date,
     !.corrected_amount = IF input.corrected_amount = Undefined THEN @
                          ELSE CorrectedAmountColumn(input.corrected_amount),
     !.error_message = IF input.error_message = UndefinedText THEN @
                       ELSE input.error_message]

\* lines 61-62
WasSuccessful(input) == input.extraction_status = "success"
\* (a variant that takes every bill not yet successful for an unreported one)
WasPending_notSuccess(existingBill) == existingBill.extraction_status # "success"
WasPending(existingBill) == existingBill.extraction_status = "pending"

UpdateBillResult(input) ==
  /\ IF input.id \notin DOMAIN electricityBills
     THEN /\ UNCHANGED <<uploadBatches, electricityBills>>
          /\ lastError' = "not_found"
     ELSE LET existingBill == electricityBills[input.id] IN
          /\ electricityBills' =
               [electricityBills EXCEPT ![input.id] = SetBill(@, input)]
          /\ IF WasPending(existingBill)
             THEN IF existingBill.upload_id \notin DOMAIN uploadBatches
                  THEN /\ UNCHANGED uploadBatches
                       /\ lastError' = "not_found"
                  ELSE /\ uploadBatches' = BatchesAfterProgress(
                            existingBill.upload_id, WasSuccessful(input))
                       /\ lastError' = "none"
             ELSE /\ UNCHANGED uploadBatches
                  /\ lastError' = "none"
  /\ UNCHANGED <<now, calls,
               selicRates, loadResult>>
  /\ response' = NoResponse

(* ---------------- processBill ---------------- *)
\* filename.toLowerCase(): the names used here differ in case only in the
\* extension
ToLowerCase(part) ==
  CASE part = "PDF" -> "pdf"
    [] part = "PNG" -> "png"
    [] OTHER -> part

\* line 71: filename.toLowerCase().split('.').pop(); a filename is the
\* sequence of its dot-separated parts
FileExtension(filename) == ToLowerCase(filename[Len(filename)])

Extracted(total_amount, energy_consumption, bill_date) ==
  [error |-> NullText, total_amount |-> total_amount,
   energy_consumption |-> energy_consumption, bill_date |-> bill_date]

ExtractionError(message) ==
  [error |-> message, total_amount |-> Null, energy_consumption |-> Null,
   bill_date |-> Null]

\* lines 145-176; content is the set of marker words the buffer includes;
\* money and kWh are counted in units of 10^-6
ExtractFromPDF(content) ==
  IF "INVALID_PDF" \in content THEN ExtractionError("Invalid PDF format")
  ELSE IF "CORRUPTED_DATA" \in content THEN ExtractionError("Corrupted PDF data")
  ELSE Extracted(
         IF "TEST_AMOUNT" \in content THEN 156780000 ELSE 123450000,
         IF "TEST_CONSUMPTION" \in content THEN 234000000 ELSE 180000000,
         IF "TEST_DATE" \in content THEN Day(2023, 8, 15) ELSE Day(2023, 7, 15))

\* lines 182-213
ExtractFromImage(content) ==
  IF "UNREADABLE_IMAGE" \in content THEN ExtractionError("Image text is unreadable")
  ELSE IF "LOW_QUALITY" \in content
       THEN ExtractionError("Image quality too low for OCR")
  ELSE Extracted(
         IF "OCR_AMOUNT" \in content THEN 98760000 ELSE 87650000,
         IF "OCR_CONSUMPTION" \in content THEN 156000000 ELSE 145000000,
         IF "OCR_DATE" \in content THEN Day(2023, 9, 20) ELSE Day(2023, 6, 20))

\* lines 69-86
Extract(input) ==
  LET fileExtension == FileExtension(input.filename) IN
  IF fileExtension = "pdf" THEN ExtractFromPDF(input.file_buffer)
  ELSE IF fileExtension \in {"jpg", "jpeg", "png", "tiff", "bmp"}
       THEN ExtractFromImage(input.file_buffer)
  ELSE ExtractionError("Unsupported file type: " \o fileExtension)

\* a variant that leaves the record as inserted when the extraction failed
ProcessedBill_failureKeepsPending(row, extractedData) ==
  IF extractedData.error = NullText
  THEN [row EXCEPT !.total_amount = NumericColumn(extractedData.total_amount),
                   !.energy_consumption =
                      NumericColumn(extractedData.energy_consumption),
                   !.bill_date = extractedData.bill_date,
                   !.extraction_status = "success",
                   !.error_message = NullText]
  ELSE row

\* lines 88-99 and 110-123: the inserted row after the second statement
ProcessedBill(row, extractedData) ==
  IF extractedData.error = NullText
  THEN [row EXCEPT !.total_amount = NumericColumn(extractedData.total_amount),
                   !.energy_consumption =
                      NumericColumn(extractedData.energy_consumption),
                   !.bill_date = extractedData.bill_date,
                   !.extraction_status = "success",
                   !.error_message = NullText]
  ELSE [row EXCEPT !.extraction_status = "error",
                   !.error_message = extractedData.error]

\* a variant that inserts the bill without looking for the batch first
ProcessBill_noBatchCheck(input) ==
  /\ electricityBills' = Append(electricityBills,
        ProcessedBill(NewBill(input.upload_id, input.filename), Extract(input)))
  /\ lastError' = "none"
  /\ UNCHANGED <<uploadBatches, now, calls,
               selicRates, loadResult>>
  /\ response' = NoResponse

ProcessBill(input) ==
  /\ IF input.upload_id \notin DOMAIN uploadBatches
     THEN /\ UNCHANGED electricityBills
          /\ lastError' = "not_found"
     ELSE /\ electricityBills' = Append(electricityBills,
               ProcessedBill(NewBill(input.upload_id, input.filename),
                             Extract(input)))
          /\ lastError' = "none"
  /\ UNCHANGED <<uploadBatches, now, calls,
               selicRates, loadResult>>
  /\ response' = NoResponse

(* ---------------- getUploadStatus, generateReport ---------------- *)
\* part_003 lines 36-42 and generate_report.ts lines 32-38: a numeric column
\* comes back as a string or null, and `x ? parseFloat(x) : 0` replaces null
\* alone (the string '0.00' is truthy); a null date becomes new Date()
ConvertedBill(bill) ==
  [bill EXCEPT
     !.total_amount = IF @ = Null THEN 0 ELSE @,
     !.energy_consumption = IF @ = Null THEN 0 ELSE @,
     !.corrected_amount = IF @ = Null THEN Null ELSE @,
     !.bill_date = IF @ = Null THEN now ELSE @]

\* where(eq(electricityBillsTable.upload_id, input.upload_id)), in id order
BillsOfUpload(upload_id) ==
  SelectSeq([id \in DOMAIN electricityBills |->
               [id |-> id] @@ electricityBills[id]],
            LAMBDA bill : bill.upload_id = upload_id)

ConvertedBills(upload_id) ==
  [i \in DOMAIN BillsOfUpload(upload_id) |->
     ConvertedBill(BillsOfUpload(upload_id)[i])]

\* part_003 lines 17-48: throws when the batch is missing; writes to no table
GetUploadStatus(input) ==
  /\ IF input.upload_id \notin DOMAIN uploadBatches
     THEN /\ lastError' = "not_found"
          /\ response' = NoResponse
     ELSE /\ lastError' = "none"
          /\ response' = [op |-> "getUploadStatus",
                          upload_id |-> input.upload_id,
                          upload |-> uploadBatches[input.upload_id],
                          bills |-> ConvertedBills(input.upload_id)]
  /\ UNCHANGED <<uploadBatches, electricityBills, now, calls,
               selicRates, loadResult>>

\* reduce((sum, bill) => sum + amount, 0) over the amounts of the bills
RECURSIVE Reduce(_)
Reduce(amounts) ==
  IF amounts = <<>> THEN 0 ELSE Head(amounts) + Reduce(Tail(amounts))

\* line 49: bill.corrected_amount || bill.total_amount || 0
CorrectedOrOriginal(bill) ==
  IF bill.corrected_amount \in {Null, 0} THEN bill.total_amount
  ELSE bill.corrected_amount

\* a variant that takes the totals over all the bills of the batch
Summary_allBills(convertedBills) ==
  LET successfulBills ==
        SelectSeq(convertedBills, LAMBDA bill : bill.extraction_status = "success")
      failedBills ==
        SelectSeq(convertedBills, LAMBDA bill : bill.extraction_status = "error")
  IN [total_bills |-> Len(convertedBills),
      successful_extractions |-> Len(successfulBills),
      failed_extractions |-> Len(failedBills),
      total_original_amount |->
        Reduce([i \in DOMAIN convertedBills |-> convertedBills[i].total_amount]),
      total_corrected_amount |->
        Reduce([i \in DOMAIN convertedBills |->
                  CorrectedOrOriginal(convertedBills[i])]),
      total_energy_consumption |->
        Reduce([i \in DOMAIN convertedBills |-> convertedBills[i].energy_consumption])]

\* generate_report.ts lines 41-61; `a || b` passes over null and 0
Summary(convertedBills) ==
  LET successfulBills ==
        SelectSeq(convertedBills, LAMBDA bill : bill.extraction_status = "success")
      failedBills ==
        SelectSeq(convertedBills, LAMBDA bill : bill.extraction_status = "error")
  IN [total_bills |-> Len(convertedBills),
      successful_extractions |-> Len(successfulBills),
      failed_extractions |-> Len(failedBills),
      total_original_amount |->
        Reduce([i \in DOMAIN successfulBills |-> successfulBills[i].total_amount]),
      total_corrected_amount |->
        Reduce([i \in DOMAIN successfulBills |->
                  CorrectedOrOriginal(successfulBills[i])]),
      total_energy_consumption |->
        Reduce([i \in DOMAIN successfulBills |-> successfulBills[i].energy_consumption])]

\* a variant that writes the defaults it reports back to the bill records
GenerateReport_storesDefaults(input) ==
  /\ IF input.upload_id \notin DOMAIN uploadBatches
     THEN /\ lastError' = "not_found"
          /\ response' = NoResponse
          /\ UNCHANGED electricityBills
     ELSE /\ lastError' = "none"
          /\ response' = [op |-> "generateReport",
                          upload_id |-> input.upload_id,
                          bills |-> ConvertedBills(input.upload_id),
                          summary |-> Summary(ConvertedBills(input.upload_id))]
          /\ electricityBills' =
               [id \in DOMAIN electricityBills |->
                  IF electricityBills[id].upload_id = input.upload_id
                  THEN [electricityBills[id] EXCEPT
                          !.total_amount = IF @ = Null THEN 0 ELSE @]
                  ELSE electricityBills[id]]
  /\ UNCHANGED <<uploadBatches, now, calls, selicRates, loadResult>>

\* generate_report.ts lines 16-62: throws when the batch is missing; writes to
\* no table; input.format is not read
GenerateReport(input) ==
  /\ IF input.upload_id \notin DOMAIN uploadBatches
     THEN /\ lastError' = "not_found"
          /\ response' = NoResponse
     ELSE /\ lastError' = "none"
          /\ response' = [op |-> "generateReport",
                          upload_id |-> input.upload_id,
                          bills |-> ConvertedBills(input.upload_id),
                          summary |-> Summary(ConvertedBills(input.upload_id))]
  /\ UNCHANGED <<uploadBatches, electricityBills, now, calls,
               selicRates, loadResult>>

(* ---------------- calendar fields of a Date ---------------- *)
RECURSIVE YearFrom(_, _)
YearFrom(y, t) == IF t < Day(y + 1, 1, 1) THEN y ELSE YearFrom(y + 1, t)

\* getFullYear(), getMonth() + 1, getDate() of a date not before BaseYear
YearOf(t) == YearFrom(BaseYear, t)

RECURSIVE MonthFrom(_, _, _)
MonthFrom(y, m, t) ==
  IF t < Day(y, m, 1) + DaysInMonth(y, m) THEN m ELSE MonthFrom(y, m + 1, t)

MonthOf(t) == MonthFrom(YearOf(t), 1, t)

DateOf(t) == t - Day(YearOf(t), MonthOf(t), 1) + 1

(* ---------------- loadSelicData ---------------- *)
\* the value of an invalid Date (getTime() is NaN) and of a NaN number
NaN == -3

\* the dates of the rate entries used here
Jul01 == Day(2023, 7, 1)
Jul15 == Day(2023, 7, 15)
Aug01 == Day(2023, 8, 1)

\* new Date(dateStr) for the date columns that occur in the files used here
ParseDate(dateStr) ==
  CASE dateStr = "2023-07-01" -> Jul01
    [] dateStr = "2023-07-15" -> Jul15
    [] dateStr = "2023-08-01" -> Aug01
    [] OTHER -> NaN

\* parseFloat(rateStr) for the rate columns that occur in the files used
\* here; a rate is counted in units of 10^-4 (the scale of the rate column)
ParseFloat(rateStr) ==
  CASE rateStr = "0.01" -> 100
    [] rateStr = "0.02" -> 200
    [] rateStr = "150" -> 1500000
    [] OTHER -> NaN

\* line.split(',').map(trim): a line is the sequence of its columns; a column
\* that is absent is undefined, an empty one is ""
Column(line, n) == IF n <= Len(line) THEN line[n] ELSE UndefinedText

\* numeric(6, 4): the insert fails when the value has more than two integer
\* digits
RateFits(rate) == rate < 1000000 /\ rate > -1000000

\* a variant that overwrites the stored rate of a date that is already there
LoadLine_overwrite(line, acc) ==
  LET dateStr == Column(line, 1)
      rateStr == Column(line, 2)
      date == ParseDate(dateStr)
      rate == ParseFloat(rateStr)
  IN IF dateStr \in {UndefinedText, ""} \/ rateStr \in {UndefinedText, ""}
     THEN [acc EXCEPT !.errors = @ + 1]
     ELSE IF date = NaN \/ rate = NaN
     THEN [acc EXCEPT !.errors = @ + 1]
     ELSE IF date \in acc.existingDates
     THEN [acc EXCEPT !.rates = [i \in DOMAIN @ |->
                                   IF @[i].date = date
                                   THEN [date |-> date, rate |-> rate]
                                   ELSE @[i]],
                      !.skipped = @ + 1]
     ELSE IF ~RateFits(rate)
     THEN [acc EXCEPT !.errors = @ + 1]
     ELSE [acc EXCEPT !.rates = Append(@, [date |-> date, rate |-> rate]),
                      !.existingDates = @ \cup {date},
                      !.loaded = @ + 1]

\* a variant that gives up the whole file at the first line it cannot parse
LoadLine_abortOnError(line, acc) ==
  LET dateStr == Column(line, 1)
      rateStr == Column(line, 2)
      date == ParseDate(dateStr)
      rate == ParseFloat(rateStr)
  IN IF acc.errors > 0 THEN acc
     ELSE IF dateStr \in {UndefinedText, ""} \/ rateStr \in {UndefinedText, ""}
     THEN [acc EXCEPT !.errors = @ + 1]
     ELSE IF date = NaN \/ rate = NaN
     THEN [acc EXCEPT !.errors = @ + 1]
     ELSE IF date \in acc.existingDates
     THEN [acc EXCEPT !.skipped = @ + 1]
     ELSE IF ~RateFits(rate)
     THEN [acc EXCEPT !.errors = @ + 1]
     ELSE [acc EXCEPT !.rates = Append(@, [date |-> date, rate |-> rate]),
                      !.existingDates = @ \cup {date},
                      !.loaded = @ + 1]

\* part_002 lines 45-85: one turn of the loop; acc carries the table, the set
\* existingDates and the three counters
LoadLine(line, acc) ==
  LET dateStr == Column(line, 1)
      rateStr == Column(line, 2)
      date == ParseDate(dateStr)
      rate == ParseFloat(rateStr)
  IN IF dateStr \in {UndefinedText, ""} \/ rateStr \in {UndefinedText, ""}
     THEN [acc EXCEPT !.errors = @ + 1]
     ELSE IF date = NaN \/ rate = NaN
     THEN [acc EXCEPT !.errors = @ + 1]
     ELSE IF date \in acc.existingDates
     THEN [acc EXCEPT !.skipped = @ + 1]
     ELSE IF ~RateFits(rate)
     THEN [acc EXCEPT !.errors = @ + 1]
     ELSE [acc EXCEPT !.rates = Append(@, [date |-> date, rate |-> rate]),
                      !.existingDates = @ \cup {date},
                      !.loaded = @ + 1]

RECURSIVE LoadLines(_, _)
LoadLines(dataLines, acc) ==
  IF dataLines = <<>> THEN acc
  ELSE LoadLines(Tail(dataLines), LoadLine(Head(dataLines), acc))

\* lines 27-30: the non-blank lines without the header row
DataLines(lines) == IF lines = <<>> THEN <<>> ELSE Tail(lines)

\* lines 36-43
ExistingDates(rates) == {rates[i].date : i \in DOMAIN rates}

\* what the loop leaves behind for the non-blank lines of a file, run on the
\* table as it is now
LoadOutcome(lines) ==
  LoadLines(DataLines(lines),
            [rates |-> selicRates,
             existingDates |-> ExistingDates(selicRates),
             loaded |-> 0, skipped |-> 0, errors |-> 0])

\* a file is what is found at data/selic_rates.csv: nothing, or its non-blank
\* lines
LoadSelicData(file) ==
  /\ IF ~file.exists
     THEN /\ UNCHANGED selicRates
          /\ loadResult' = [loaded |-> 0, skipped |-> 0, errors |-> 1]
     ELSE LET acc == LoadOutcome(file.lines)
          IN /\ selicRates' = acc.rates
             /\ loadResult' = [loaded |-> acc.loaded, skipped |-> acc.skipped,
                               errors |-> acc.errors]
  /\ lastError' = "none"
  /\ UNCHANGED <<uploadBatches, electricityBills, now, calls>>
  /\ response' = NoResponse

(* ---------------- calculateSelicCorrection ---------------- *)
\* numeric(10, 2): a value written to an amount column is rounded to cents
\* (10^4 of the units used here), half away from zero
NumericScale2(x) ==
  IF x >= 0 THEN ((x + 5000) \div 10000) * 10000
  ELSE 0 - (((0 - x) + 5000) \div 10000) * 10000

\* orderBy(asc(selicRatesTable.date)); rows of one date, which SQL may give
\* in any order, are kept in the order of their ids
RECURSIVE OrderByDate(_)
OrderByDate(rows) ==
  IF rows = <<>> THEN <<>>
  ELSE LET first == CHOOSE i \in DOMAIN rows :
                      \A j \in DOMAIN rows :
                        \/ rows[i].date < rows[j].date
                        \/ rows[i].date = rows[j].date /\ i <= j
       IN <<rows[first]>> \o
          OrderByDate(SubSeq(rows, 1, first - 1) \o
                      SubSeq(rows, first + 1, Len(rows)))

\* a variant that leaves out the entry dated endDate
GetSelicRatesForPeriod_beforeEnd(startDate, endDate) ==
  OrderByDate(SelectSeq(selicRates,
                LAMBDA row : row.date >= startDate /\ row.date < endDate))

\* upload_zip.ts lines 199-213: the stored entries with
\* startDate <= date <= endDate, by ascending date
GetSelicRatesForPeriod(startDate, endDate) ==
  OrderByDate(SelectSeq(selicRates,
                LAMBDA row : row.date >= startDate /\ row.date <= endDate))

\* the exported function called on its own (update_bill_result.test.ts
\* 525-578): the query cannot fail on dates and writes nothing
QuerySelicRatesForPeriod(startDate, endDate) ==
  /\ response' = [op |-> "getSelicRatesForPeriod",
                  startDate |-> startDate, endDate |-> endDate,
                  rates |-> GetSelicRatesForPeriod(startDate, endDate)]
  /\ lastError' = "none"
  /\ UNCHANGED <<uploadBatches, electricityBills, now, calls,
               selicRates, loadResult>>

\* lines 235 and 244: `${getFullYear()}-${getMonth()}`
MonthKey(t) == <<YearOf(t), MonthOf(t) - 1>>

\* lines 232-237 and 245: the entries are put in the map in the order of the
\* sequence, so the last entry of a month is the one the map keeps; a month without
\* entry (or with rate 0) counts 0
MonthlyRate(rates, monthKey) ==
  LET ofMonth == SelectSeq(rates, LAMBDA r : MonthKey(r.date) = monthKey) IN
  IF ofMonth = <<>> THEN 0 ELSE ofMonth[Len(ofMonth)].rate

\* line 251: current.setMonth(current.getMonth() + 1); a day of the month
\* that the next month does not have runs over into the month after it
NextMonth(t) ==
  LET y == YearOf(t)
      m == MonthOf(t)
  IN (IF m = 12 THEN Day(y + 1, 1, 1) ELSE Day(y, m + 1, 1)) + (DateOf(t) - 1)

\* lines 240-252: the month keys the while loop goes through
RECURSIVE WalkedMonths(_, _)
WalkedMonths(current, end) ==
  IF current < end
  THEN <<MonthKey(current)>> \o WalkedMonths(NextMonth(current), end)
  ELSE <<>>

\* amount * (1 + rate), the rate in units of 10^-4; the product is cut to the
\* unit of amounts (10^-6), far below the cent the column keeps
TimesOnePlus(amount, rate) ==
  (amount \div 10000) * (10000 + rate)
    + ((amount % 10000) * (10000 + rate)) \div 10000

\* lines 229-254 and 165: the amount times the factor of every month gone
\* through
RECURSIVE Compound(_, _, _)
Compound(amount, months, rates) ==
  IF months = <<>> THEN amount
  ELSE Compound(TimesOnePlus(amount, MonthlyRate(rates, Head(months))),
                Tail(months), rates)

\* lines 108-110: !bill.bill_date || !bill.total_amount
MissingRequiredData(bill) ==
  bill.bill_date = Null \/ bill.total_amount \in {0, NaN, Null}

\* lines 115-165: the amount written to corrected_amount once currentDate
\* has its value
CorrectionAt(bill, currentDate) ==
  LET billDate == bill.bill_date
      rates == GetSelicRatesForPeriod(billDate, currentDate)
  IN IF billDate >= currentDate THEN bill.total_amount
     ELSE IF rates = <<>> THEN bill.total_amount
     ELSE Compound(bill.total_amount, WalkedMonths(billDate, currentDate),
                   rates)

\* line 113: currentDate = new Date(), the clock and not an input
CorrectedAmount(bill) == CorrectionAt(bill, now)

\* bill is the object the caller passes: id, total_amount and bill_date are
\* what the handler reads of it.  The update addresses the row by bill.id;
\* when no row has that id updateResult[0] is undefined and reading it throws.
CalculateSelicCorrection(bill) ==
  /\ IF MissingRequiredData(bill)
     THEN /\ UNCHANGED electricityBills
          /\ lastError' = "invalid_input"
     ELSE IF bill.id \notin DOMAIN electricityBills
     THEN /\ UNCHANGED electricityBills
          /\ lastError' = "type_error"
     ELSE /\ electricityBills' =
               [electricityBills EXCEPT ![bill.id].corrected_amount =
                  NumericScale2(CorrectedAmount(bill))]
          /\ lastError' = "none"
  /\ UNCHANGED <<uploadBatches, now, calls, selicRates, loadResult>>
  /\ response' = NoResponse

(* ---------------- time ---------------- *)
Tick ==
  /\ now' = now + 1
  /\ UNCHANGED <<uploadBatches, electricityBills, calls, lastError,
               selicRates, loadResult, response>>

(* ---------------- inputs ---------------- *)
FileCounts == 0..MaxFileCount
UploadIds == 1..(MaxBatches + 1)
BillIds == 1..(MaxBills + 1)

BillInput(id, status, amount, consumption, date, corrected, message) ==
  [id |-> id, extraction_status |-> status, total_amount |-> amount,
   energy_consumption |-> consumption, bill_date |-> date,
   corrected_amount |-> corrected, error_message |-> message]

\* the outcomes an extraction collaborator reports, and a status-only input
UpdateInputs ==
  UNION {{BillInput(id, "success", 150750000, 300500000, Day(2023, 10, 15),
                    165250000, UndefinedText),
          BillInput(id, "error", Undefined, Undefined, Undefined, Undefined,
                    "Failed to extract data from PDF"),
          BillInput(id, "pending", Undefined, Undefined, Undefined, Undefined,
                    UndefinedText)} : id \in BillIds}

ProcessInputs ==
  [upload_id : UploadIds,
   filename : {<<"conta", "PDF">>, <<"notes", "txt">>},
   file_buffer : {{}, {"INVALID_PDF"}}]

StatusInputs == [upload_id : UploadIds]
ReportInputs == [upload_id : UploadIds, format : {"excel", "csv"}]

(* ---------------- Spec: whole handlers, one at a time ---------------- *)
Init ==
  /\ uploadBatches = <<>>
  /\ electricityBills = <<>>
  /\ now = StartDate
  /\ calls = <<>>
  /\ lastError = "none"
  /\ selicRates = <<>>
  /\ loadResult = [loaded |-> 0, skipped |-> 0, errors |-> 0]
  /\ response = NoResponse

NextUploadZip ==
  \E file_count \in FileCounts :
    /\ Len(uploadBatches) < MaxBatches
    /\ Len(electricityBills) + file_count <= MaxBills
    /\ UploadZip(file_count)

\* the counters are followed up to MaxProcessed
CountersWithinBound(batches) ==
  \A b \in DOMAIN batches : batches[b].processed_files <= MaxProcessed

NextUpdateBillResult ==
  \E input \in UpdateInputs :
    /\ UpdateBillResult(input)
    /\ CountersWithinBound(uploadBatches')

NextUpdateUploadBatchProgress ==
  \E uploadId \in UploadIds, isSuccess \in BOOLEAN :
    /\ UpdateUploadBatchProgress(uploadId, isSuccess)
    /\ CountersWithinBound(uploadBatches')

NextProcessBill ==
  \E input \in ProcessInputs :
    /\ Len(electricityBills) < MaxBills
    /\ ProcessBill(input)

NextGetUploadStatus == \E input \in StatusInputs : GetUploadStatus(input)

NextGenerateReport == \E input \in ReportInputs : GenerateReport(input)

NextTick ==
  /\ now < StartDate + MaxTicks
  /\ Tick

Next ==
  \/ NextUploadZip
  \/ NextUpdateBillResult
  \/ NextUpdateUploadBatchProgress
  \/ NextProcessBill
  \/ NextGetUploadStatus
  \/ NextGenerateReport
  \/ NextTick

Spec == Init /\ [][Next]_vars

(* ---------------- ApiSpec: the handlers only ---------------- *)
\* updateUploadBatchProgress runs only as the last step of updateBillResult
ApiNext ==
  \/ NextUploadZip
  \/ NextUpdateBillResult
  \/ NextProcessBill
  \/ NextGetUploadStatus
  \/ NextGenerateReport
  \/ NextTick

ApiSpec == Init /\ [][ApiNext]_vars

(* ---------------- FieldSpec: updateBillResult with partial inputs ------- *)
\* inputs the schema admits beside the complete outcomes: a success with the
\* amount only (update_bill_result.test.ts 107-115), an error without a
\* message, an error that carries a corrected amount
FieldInputs ==
  UpdateInputs \cup
  UNION {{BillInput(id, "success", 100500000, Undefined, Undefined, Undefined,
                    UndefinedText),
          BillInput(id, "error", Undefined, Undefined, Undefined, Undefined,
                    UndefinedText),
          BillInput(id, "error", Undefined, Undefined, Undefined, 165250000,
                    "Failed to extract data from PDF")} : id \in BillIds}

FieldUpdateBillResult ==
  \E input \in FieldInputs :
    /\ UpdateBillResult(input)
    /\ CountersWithinBound(uploadBatches')

FieldNext ==
  \/ NextUploadZip
  \/ FieldUpdateBillResult

FieldSpec == Init /\ [][FieldNext]_vars

(* ---------------- FilesSpec: uploadZip and processBill on files -------- *)
FileNames == {<<"conta", "PDF">>, <<"scan", "png">>, <<"notes", "txt">>}

FileBuffers ==
  {{}, {"INVALID_PDF"}, {"CORRUPTED_DATA"}, {"UNREADABLE_IMAGE"},
   {"LOW_QUALITY"}}

FileInputs ==
  [upload_id : 1..(MaxUploads + 1), filename : FileNames,
   file_buffer : FileBuffers]

FilesUploadZip ==
  \E file_count \in FileCounts :
    /\ Len(uploadBatches) < MaxUploads
    /\ Len(electricityBills) + file_count <= MaxBills
    /\ UploadZip(file_count)

FilesProcessBill ==
  \E input \in FileInputs :
    /\ Len(electricityBills) < MaxBills
    /\ ProcessBill(input)

FilesNext ==
  \/ FilesUploadZip
  \/ FilesProcessBill

FilesSpec == Init /\ [][FilesNext]_vars

(* ---------------- RateSpec: loadSelicData over files ---------------- *)
Header == <<"date", "rate">>

\* data lines: two dates of July, one of them repeated with another rate, and
\* the lines that cannot be loaded (invalid date, invalid rate, missing
\* column, rate too large for the column)
CsvLines ==
  {<<"2023-07-01", "0.01">>, <<"2023-07-15", "0.02">>,
   <<"2023-07-01", "0.02">>,
   <<"invalid-date", "0.01">>, <<"2023-08-01", "abc">>,
   <<"2023-08-01">>, <<"2023-08-01", "150">>}

CsvData == UNION {[1..n -> CsvLines] : n \in 0..MaxLines}

CsvFiles ==
  {[exists |-> FALSE, lines |-> <<>>], [exists |-> TRUE, lines |-> <<>>]}
  \cup {[exists |-> TRUE, lines |-> <<Header>> \o data] : data \in CsvData}

NextLoadSelicData == \E file \in CsvFiles : LoadSelicData(file)

RateNext == NextLoadSelicData

RateSpec == Init /\ [][RateNext]_vars

(* ---------------- CorrSpec: calculateSelicCorrection ---------------- *)
Jul31 == Day(2023, 7, 31)
Sep01 == Day(2023, 9, 1)

\* the bill objects handed to calculateSelicCorrection: the first bill or a
\* bill that is not stored; 0, 1000.00, -50.00 or NaN as amount; no date, a
\* date of July or a date not before the clock
CorrectionBills ==
  [id : {1, MaxBills + 1},
   total_amount : {0, 1000000000, 0 - 50000000, NaN},
   bill_date : {Null, Jul01, Jul15, Jul31, Sep01}]

\* files of one well-formed line
CorrFiles ==
  {[exists |-> TRUE, lines |-> <<Header, line>>] :
     line \in {<<"2023-07-01", "0.01">>, <<"2023-07-15", "0.02">>,
               <<"2023-08-01", "0.01">>}}

CorrLoadSelicData == \E file \in CorrFiles : LoadSelicData(file)

NextCalculateSelicCorrection ==
  \E bill \in CorrectionBills : CalculateSelicCorrection(bill)

CorrNext ==
  \/ NextUploadZip
  \/ CorrLoadSelicData
  \/ NextCalculateSelicCorrection
  \/ NextTick

CorrSpec == Init /\ [][CorrNext]_vars

(* ---------------- QuerySpec: getSelicRatesForPeriod ---------------- *)
\* the dates of the stored entries and a date between them
QueryDates == {Jul01, Jul15, Jul31, Aug01}

NextGetSelicRatesForPeriod ==
  \E startDate \in QueryDates, endDate \in QueryDates :
    QuerySelicRatesForPeriod(startDate, endDate)

QueryNext ==
  \/ CorrLoadSelicData
  \/ NextGetSelicRatesForPeriod

QuerySpec == Init /\ [][QueryNext]_vars

(* ---------------- ReportSpec: status and report while bills come in ---- *)
\* data/selic_rates.csv with one rate
ReportLoadSelicData ==
  LoadSelicData([exists |-> TRUE,
                 lines |-> <<Header, <<"2023-07-01", "0.01">>>>])

\* the outcomes reported while the batch is processed: a success with all
\* its values, a success with the amount only, an error
ReportOutcomes ==
  UNION {{BillInput(id, "success", 150750000, 300500000, Day(2023, 10, 15),
                    165250000, UndefinedText),
          BillInput(id, "success", 100500000, Undefined, Undefined, Undefined,
                    UndefinedText),
          BillInput(id, "error", Undefined, Undefined, Undefined, Undefined,
                    "Failed to extract data from PDF")} : id \in BillIds}

ReportUpdateBillResult ==
  \E input \in ReportOutcomes :
    /\ UpdateBillResult(input)
    /\ CountersWithinBound(uploadBatches')

ReportNext ==
  \/ FilesUploadZip
  \/ ReportUpdateBillResult
  \/ ReportLoadSelicData
  \/ NextGetUploadStatus
  \/ NextGenerateReport

ReportSpec == Init /\ [][ReportNext]_vars

(* ---------------- TrackerSpec: the tracker over two batches ------------ *)
TrackerNext ==
  \/ FilesUploadZip
  \/ NextUpdateUploadBatchProgress
  \/ NextTick

TrackerSpec == Init /\ [][TrackerNext]_vars

(* ---------------- ConcSpec: one database statement per step ------------ *)
\* A call is the frame of one handler invocation: its arguments, the rows it
\* has read so far and the statement it runs next.
NoBill == NewBill(0, <<>>)
NoBatch == NewUploadBatch(0)
NoInput == BillInput(0, "pending", Undefined, Undefined, Undefined, Undefined,
                     UndefinedText)

Call(op, input, pc, existingBill, uploadId, isSuccess, batch, error) ==
  [op |-> op, input |-> input, pc |-> pc, existingBill |-> existingBill,
   uploadId |-> uploadId, isSuccess |-> isSuccess, batch |-> batch,
   error |-> error]

InFlight(pc) == {c \in BagToSet(calls) : c.pc = pc}

Resume(c, d) == calls' = (calls (-) SetToBag({c})) (+) SetToBag({d})

\* part_004 lines 18-27: updateBillResult is called and its select runs
SelectBill(input) ==
  /\ calls' = calls (+) SetToBag({
       IF input.id \notin DOMAIN electricityBills
       THEN Call("updateBillResult", input, "done", NoBill, 0, FALSE, NoBatch,
                 "not_found")
       ELSE Call("updateBillResult", input, "updateBill",
                 electricityBills[input.id], 0, FALSE, NoBatch, "none")})
  /\ UNCHANGED <<uploadBatches, electricityBills, now, lastError,
               selicRates, loadResult, response>>

\* part_004 lines 30-66: the update statement runs; the call goes on to
\* updateUploadBatchProgress when the bill it had read was pending
UpdateBill(c) ==
  /\ electricityBills' =
       [electricityBills EXCEPT ![c.input.id] = SetBill(@, c.input)]
  /\ Resume(c, IF WasPending(c.existingBill)
               THEN [c EXCEPT !.pc = "selectBatch",
                              !.uploadId = c.existingBill.upload_id,
                              !.isSuccess = WasSuccessful(c.input)]
               ELSE [c EXCEPT !.pc = "done"])
  /\ UNCHANGED <<uploadBatches, now, lastError,
               selicRates, loadResult, response>>

\* part_004 lines 92-101: the select of updateUploadBatchProgress
BatchSelected(c) ==
  IF c.uploadId \notin DOMAIN uploadBatches
  THEN [c EXCEPT !.pc = "done", !.error = "not_found"]
  ELSE [c EXCEPT !.pc = "updateBatch", !.batch = uploadBatches[c.uploadId]]

\* ... reached from updateBillResult (line 65)
SelectBatch(c) ==
  /\ Resume(c, BatchSelected(c))
  /\ UNCHANGED <<uploadBatches, electricityBills, now, lastError,
               selicRates, loadResult, response>>

\* ... and called directly
CallUpdateUploadBatchProgress(uploadId, isSuccess) ==
  /\ calls' = calls (+) SetToBag({
       BatchSelected(Call("updateUploadBatchProgress", NoInput, "selectBatch",
                          NoBill, uploadId, isSuccess, NoBatch, "none"))})
  /\ UNCHANGED <<uploadBatches, electricityBills, now, lastError,
               selicRates, loadResult, response>>

\* part_004 lines 103-127: the update is computed from the row read earlier
UpdateBatch(c) ==
  /\ uploadBatches' = [uploadBatches EXCEPT ![c.uploadId] =
                         SetBatch(@, ProgressUpdateData(c.batch, c.isSuccess))]
  /\ Resume(c, [c EXCEPT !.pc = "done"])
  /\ UNCHANGED <<electricityBills, now, lastError,
               selicRates, loadResult, response>>

ConcUploadZip ==
  \E file_count \in FileCounts :
    /\ Len(uploadBatches) < MaxBatches
    /\ Len(electricityBills) + file_count <= MaxBills
    /\ UploadZip(file_count)

ConcSelectBill ==
  \E input \in UpdateInputs :
    /\ BagCardinality(calls) < MaxCalls
    /\ SelectBill(input)

ConcUpdateBill == \E c \in InFlight("updateBill") : UpdateBill(c)

ConcSelectBatch == \E c \in InFlight("selectBatch") : SelectBatch(c)

ConcCallUpdateUploadBatchProgress ==
  \E uploadId \in UploadIds, isSuccess \in BOOLEAN :
    /\ BagCardinality(calls) < MaxCalls
    /\ CallUpdateUploadBatchProgress(uploadId, isSuccess)

ConcUpdateBatch == \E c \in InFlight("updateBatch") : UpdateBatch(c)

ConcNext ==
  \/ ConcUploadZip
  \/ ConcSelectBill
  \/ ConcUpdateBill
  \/ ConcSelectBatch
  \/ ConcCallUpdateUploadBatchProgress
  \/ ConcUpdateBatch
  \/ NextTick

ConcSpec == Init /\ [][ConcNext]_vars

(* ======================= properties ======================= *)
Batches == DOMAIN uploadBatches
Bills == DOMAIN electricityBills
BillsOf(b) == {i \in Bills : electricityBills[i].upload_id = b}
AllCallsDone == \A c \in BagToSet(calls) : c.pc = "done"

\* Every call made so far is an updateBillResult call that reported a
\* terminal outcome for a bill it read as pending, and no two calls are for
\* the same bill.
OneOutcomePerPendingBill ==
  /\ \A c \in BagToSet(calls) :
       /\ c.op = "updateBillResult" /\ c.error = "none"
       /\ c.input.extraction_status \in Terminal
       /\ c.existingBill.extraction_status = "pending"
       /\ CopiesIn(c, calls) = 1
  /\ \A c, d \in BagToSet(calls) : c.input.id = d.input.id => c = d

OutcomesFor(b) == {c \in BagToSet(calls) : c.existingBill.upload_id = b}
ErrorsFor(b) == {c \in OutcomesFor(b) : c.input.extraction_status = "error"}

\* C1: every batch satisfies failed_files <= processed_files <= total_files
\* in every reachable state.
C1_CountersWithinTotal ==
  \A b \in Batches :
    /\ uploadBatches[b].failed_files <= uploadBatches[b].processed_files
    /\ uploadBatches[b].processed_files <= uploadBatches[b].total_files

\* C2: for every batch, processed_files is the number of its bills in a
\* terminal status and failed_files the number of its bills in status error.
C2_CountersMatchBills ==
  \A b \in Batches :
    /\ uploadBatches[b].processed_files =
         Cardinality({i \in BillsOf(b) :
                        electricityBills[i].extraction_status \in Terminal})
    /\ uploadBatches[b].failed_files =
         Cardinality({i \in BillsOf(b) :
                        electricityBills[i].extraction_status = "error"})

\* C3: a batch is completed exactly when processed_files = total_files, and
\* completed_at is set exactly when the batch is completed.
C3_CompletedIffAllProcessed ==
  \A b \in Batches :
    /\ uploadBatches[b].status = "completed"
         <=> uploadBatches[b].processed_files = uploadBatches[b].total_files
    /\ uploadBatches[b].completed_at # Null
         <=> uploadBatches[b].status = "completed"

\* C4: when N terminal outcomes for N different pending bills have been
\* applied by interleaved calls, processed_files is N and failed_files is the
\* number of error outcomes: no increment is lost.
C4_NoIncrementLost ==
  (AllCallsDone /\ OneOutcomePerPendingBill) =>
    \A b \in Batches :
      /\ uploadBatches[b].processed_files = Cardinality(OutcomesFor(b))
      /\ uploadBatches[b].failed_files = Cardinality(ErrorsFor(b))

\* C5: a batch that is completed never shows status processing again.
C5_CompletedIsFinal ==
  [][\A b \in Batches :
       uploadBatches[b].status = "completed"
         => uploadBatches'[b].status = "completed"]_vars

\* C6: once completed_at is non-null it keeps its value for good.
C6_CompletedAtWrittenOnce ==
  [][\A b \in Batches :
       uploadBatches[b].completed_at # Null
         => uploadBatches'[b].completed_at = uploadBatches[b].completed_at]_vars

\* C7: once each of the total_files (at least one) bills of a batch has
\* received one terminal outcome through updateBillResult, in any
\* interleaving, the batch is completed with processed_files = total_files.
C7_AllOutcomesComplete ==
  (AllCallsDone /\ OneOutcomePerPendingBill) =>
    \A b \in Batches :
      (/\ uploadBatches[b].total_files >= 1
       /\ \A i \in BillsOf(b) : \E c \in BagToSet(calls) : c.input.id = i)
      => /\ uploadBatches[b].status = "completed"
         /\ uploadBatches[b].processed_files = uploadBatches[b].total_files

\* C8: a bill that is success or error keeps that extraction_status under
\* every operation.
C8_TerminalStatusIsFinal ==
  [][\A i \in Bills :
       electricityBills[i].extraction_status \in Terminal
         => electricityBills'[i].extraction_status
              = electricityBills[i].extraction_status]_vars

\* C9: updateBillResult on a bill whose stored status is already success or
\* error stores the fields of the input on the bill and leaves every field of
\* the parent batch (processed_files, failed_files, status, completed_at) as
\* it was.
C9_TerminalUpdateKeepsBatch ==
  [][\A input \in UpdateInputs :
       (/\ input.id \in Bills
        /\ electricityBills[input.id].extraction_status \in Terminal
        /\ UpdateBillResult(input))
       => /\ uploadBatches' = uploadBatches
          /\ electricityBills'[input.id].extraction_status
               = input.extraction_status
          /\ input.total_amount # Undefined
               => electricityBills'[input.id].total_amount = input.total_amount
          /\ input.error_message # UndefinedText
               => electricityBills'[input.id].error_message
                    = input.error_message]_vars

\* C9 witness: a bill that was reported success (the one outcome counted, as
\* a success) and was then overwritten with an error outcome by a later
\* updateBillResult call that the batch did not count.
C9_Witness ==
  /\ lastError = "none"
  /\ \E i \in Bills :
       /\ electricityBills[i].extraction_status = "error"
       /\ electricityBills[i].total_amount = 150750000
       /\ electricityBills[i].error_message = "Failed to extract data from PDF"
       /\ BillsOf(electricityBills[i].upload_id) = {i}
       /\ uploadBatches[electricityBills[i].upload_id].processed_files = 1
       /\ uploadBatches[electricityBills[i].upload_id].failed_files = 0

\* C10: two interleaved updateBillResult calls that both read the same bill
\* as pending notify the tracker once in total: processed_files becomes 1.
C10_SameBillCountedOnce ==
  (/\ AllCallsDone
   /\ BagCardinality(calls) = 2
   /\ \A c \in BagToSet(calls) :
        /\ c.op = "updateBillResult" /\ c.error = "none"
        /\ c.input.extraction_status \in Terminal
        /\ c.existingBill.extraction_status = "pending"
   /\ \A c, d \in BagToSet(calls) : c.input.id = d.input.id)
  => \A c \in BagToSet(calls) :
       uploadBatches[c.existingBill.upload_id].processed_files = 1

\* C11: updateBillResult notifies the tracker exactly when it moves the bill
\* from pending to success or error: then processed_files grows by 1 and
\* failed_files by 1 iff the new status is error; in every other case (the
\* input status is pending, or the bill was not pending) the batch row keeps
\* its counters.
C11_NotifiedOnTerminalTransition ==
  [][\A input \in UpdateInputs :
       (input.id \in Bills /\ UpdateBillResult(input)) =>
         LET b == electricityBills[input.id].upload_id IN
         IF /\ electricityBills[input.id].extraction_status = "pending"
            /\ input.extraction_status \in Terminal
         THEN /\ uploadBatches'[b].processed_files
                   = uploadBatches[b].processed_files + 1
              /\ uploadBatches'[b].failed_files
                   = uploadBatches[b].failed_files
                       + (IF input.extraction_status = "error" THEN 1 ELSE 0)
         ELSE /\ uploadBatches'[b].processed_files
                   = uploadBatches[b].processed_files
              /\ uploadBatches'[b].failed_files
                   = uploadBatches[b].failed_files]_vars

\* C12: every bill has a non-null error_message exactly when its
\* extraction_status is error.
C12_ErrorMessageIffError ==
  \A i \in Bills :
    electricityBills[i].error_message # NullText
      <=> electricityBills[i].extraction_status = "error"

\* C13: a bill has a non-null corrected_amount only in status success.
C13_CorrectedOnlyOnSuccess ==
  \A i \in Bills :
    electricityBills[i].corrected_amount # Null
      => electricityBills[i].extraction_status = "success"

\* C14: a bill that processBill leaves in status success has a non-null
\* corrected_amount.
C14_ProcessedSuccessIsCorrected ==
  [][\A input \in ProcessInputs :
       (input.upload_id \in Batches /\ ProcessBill(input)) =>
         LET bill == electricityBills'[Len(electricityBills')] IN
         bill.extraction_status = "success" => bill.corrected_amount # Null]_vars

\* C15: total_amount, energy_consumption and bill_date of a bill are all null
\* or all non-null, and non-null only in status success.
C15_ExtractedFieldsTogether ==
  \A i \in Bills :
    LET bill == electricityBills[i] IN
    /\ (bill.total_amount = Null) = (bill.energy_consumption = Null)
    /\ (bill.total_amount = Null) = (bill.bill_date = Null)
    /\ bill.total_amount # Null => bill.extraction_status = "success"

\* C16: a batch with total_files = 0 for which no outcome was recorded is
\* completed and has a completed_at.
C16_EmptyBatchIsCompleted ==
  \A b \in Batches :
    (uploadBatches[b].total_files = 0 /\ uploadBatches[b].processed_files = 0)
    => /\ uploadBatches[b].status = "completed"
       /\ uploadBatches[b].completed_at # Null

\* C17: uploadZip(file_count = n) appends one batch (total_files = n, both
\* counters 0, status processing, completed_at null) and n bills of that
\* batch, each pending with every extracted field null; the rows that were
\* there stay as they are.
C17_UploadZipCreatesPendingBills ==
  [][\A n \in FileCounts :
       UploadZip(n) =>
         LET id == Len(uploadBatches) + 1
             old == Len(electricityBills)
         IN /\ Len(uploadBatches') = id
            /\ SubSeq(uploadBatches', 1, id - 1) = uploadBatches
            /\ uploadBatches'[id].total_files = n
            /\ uploadBatches'[id].processed_files = 0
            /\ uploadBatches'[id].failed_files = 0
            /\ uploadBatches'[id].status = "processing"
            /\ uploadBatches'[id].completed_at = Null
            /\ Len(electricityBills') = old + n
            /\ SubSeq(electricityBills', 1, old) = electricityBills
            /\ \A i \in (old + 1)..(old + n) :
                 /\ electricityBills'[i].upload_id = id
                 /\ electricityBills'[i].extraction_status = "pending"
                 /\ electricityBills'[i].total_amount = Null
                 /\ electricityBills'[i].energy_consumption = Null
                 /\ electricityBills'[i].bill_date = Null
                 /\ electricityBills'[i].corrected_amount = Null
                 /\ electricityBills'[i].error_message = NullText]_vars

\* C17 witness: a second batch of one file uploaded after a bill of the first
\* batch had been processed.
C17_Witness ==
  /\ Len(uploadBatches) = 2
  /\ Len(electricityBills) = 2
  /\ uploadBatches[2].total_files = 1
  /\ electricityBills[1].upload_id = 1
  /\ electricityBills[1].extraction_status = "success"
  /\ electricityBills[2].upload_id = 2
  /\ electricityBills[2].extraction_status = "pending"
  /\ electricityBills[2].filename = <<"bill_1", "pdf">>

\* C18: the number of bills of a batch equals its total_files.
C18_BillsMatchTotalFiles ==
  \A b \in Batches :
    Cardinality(BillsOf(b)) = uploadBatches[b].total_files

\* C19: updateBillResult, updateUploadBatchProgress, processBill,
\* getUploadStatus and generateReport given the id of a bill or batch that
\* does not exist end with a not-found error and leave both tables as they
\* were.
C19_MissingIdIsNotFound ==
  [][/\ \A input \in UpdateInputs :
          (input.id \notin Bills /\ UpdateBillResult(input))
          => /\ lastError' = "not_found"
             /\ uploadBatches' = uploadBatches
             /\ electricityBills' = electricityBills
     /\ \A uploadId \in UploadIds, isSuccess \in BOOLEAN :
          (uploadId \notin Batches
             /\ UpdateUploadBatchProgress(uploadId, isSuccess))
          => /\ lastError' = "not_found"
             /\ uploadBatches' = uploadBatches
             /\ electricityBills' = electricityBills
     /\ \A input \in ProcessInputs :
          (input.upload_id \notin Batches /\ ProcessBill(input))
          => /\ lastError' = "not_found"
             /\ uploadBatches' = uploadBatches
             /\ electricityBills' = electricityBills
     /\ \A input \in StatusInputs :
          (input.upload_id \notin Batches /\ GetUploadStatus(input))
          => /\ lastError' = "not_found"
             /\ uploadBatches' = uploadBatches
             /\ electricityBills' = electricityBills
     /\ \A input \in ReportInputs :
          (input.upload_id \notin Batches /\ GenerateReport(input))
          => /\ lastError' = "not_found"
             /\ uploadBatches' = uploadBatches
             /\ electricityBills' = electricityBills]_vars

\* C19 witness: a call with a missing id has just failed while a batch with a
\* pending and a successful bill is stored.
C19_Witness ==
  /\ lastError = "not_found"
  /\ Len(uploadBatches) = 1
  /\ \E i, j \in Bills :
       /\ electricityBills[i].extraction_status = "pending"
       /\ electricityBills[j].extraction_status = "success"

\* C20: processBill for an existing batch returns (does not throw) and adds a
\* bill in a terminal status; an unsupported extension or a failed extraction
\* gives status error with the reason in error_message.
C20_ExtractionFailureIsRecorded ==
  [][\A input \in FileInputs :
       (input.upload_id \in Batches /\ ProcessBill(input)) =>
         LET bill == electricityBills'[Len(electricityBills')]
             ext == FileExtension(input.filename)
             failed(message) == /\ bill.extraction_status = "error"
                                /\ bill.error_message = message
         IN /\ lastError' = "none"
            /\ Len(electricityBills') = Len(electricityBills) + 1
            /\ bill.upload_id = input.upload_id
            /\ bill.extraction_status \in Terminal
            /\ ext = "txt" => failed("Unsupported file type: txt")
            /\ (ext = "pdf" /\ "INVALID_PDF" \in input.file_buffer)
                 => failed("Invalid PDF format")
            /\ (ext = "pdf" /\ "CORRUPTED_DATA" \in input.file_buffer)
                 => failed("Corrupted PDF data")
            /\ (ext = "png" /\ "UNREADABLE_IMAGE" \in input.file_buffer)
                 => failed("Image text is unreadable")
            /\ (ext = "png" /\ "LOW_QUALITY" \in input.file_buffer)
                 => failed("Image quality too low for OCR")]_vars

\* C20 witness: processBill has returned after recording an unsupported file
\* and an unreadable image as error bills.
C20_Witness ==
  /\ lastError = "none"
  /\ \E i, j \in Bills :
       /\ electricityBills[i].extraction_status = "error"
       /\ electricityBills[i].error_message = "Unsupported file type: txt"
       /\ electricityBills[j].extraction_status = "error"
       /\ electricityBills[j].error_message = "Image text is unreadable"

\* C21: an error outcome recorded by updateBillResult for a pending bill adds
\* 1 to processed_files and to failed_files of its batch, completes the batch
\* exactly when that reaches total_files, and touches nothing else (not
\* total_files, no other batch, no other bill); no batch ever has status
\* failed; and every bill that is still pending can receive its outcome.
C21_FailureNeverHaltsBatch ==
  /\ [](\A b \in Batches : uploadBatches[b].status # "failed")
  /\ [](\A input \in UpdateInputs :
          (/\ input.id \in Bills
           /\ electricityBills[input.id].extraction_status = "pending"
           /\ input.extraction_status \in Terminal)
          => ENABLED (/\ UpdateBillResult(input)
                      /\ lastError' = "none"
                      /\ electricityBills'[input.id].extraction_status
                           = input.extraction_status))
  /\ [][\A input \in UpdateInputs :
          (/\ input.id \in Bills
           /\ electricityBills[input.id].extraction_status = "pending"
           /\ input.extraction_status = "error"
           /\ UpdateBillResult(input))
          => LET b == electricityBills[input.id].upload_id IN
             /\ uploadBatches'[b].total_files = uploadBatches[b].total_files
             /\ uploadBatches'[b].processed_files
                  = uploadBatches[b].processed_files + 1
             /\ uploadBatches'[b].failed_files
                  = uploadBatches[b].failed_files + 1
             /\ uploadBatches'[b].status
                  = (IF uploadBatches'[b].processed_files
                          >= uploadBatches[b].total_files
                     THEN "completed" ELSE "processing")
             /\ \A c \in Batches \ {b} : uploadBatches'[c] = uploadBatches[c]
             /\ \A i \in Bills \ {input.id} :
                  electricityBills'[i] = electricityBills[i]]_vars

\* C21 witness: a batch of two files of which one failed and then the other
\* succeeded: it is completed with one failure counted.
C21_Witness ==
  \E b \in Batches, i, j \in Bills :
    /\ BillsOf(b) = {i, j}
    /\ electricityBills[i].extraction_status = "error"
    /\ electricityBills[j].extraction_status = "success"
    /\ uploadBatches[b].total_files = 2
    /\ uploadBatches[b].processed_files = 2
    /\ uploadBatches[b].failed_files = 1
    /\ uploadBatches[b].status = "completed"

\* a data line with both columns, a valid date and a valid number
WellFormed(line) ==
  /\ Len(line) >= 2
  /\ ParseDate(line[1]) # NaN
  /\ ParseFloat(line[2]) # NaN

\* C28: the rate store never holds two entries of the same calendar month.
C28_OneRatePerMonth ==
  \A i, j \in DOMAIN selicRates :
    (/\ YearOf(selicRates[i].date) = YearOf(selicRates[j].date)
     /\ MonthOf(selicRates[i].date) = MonthOf(selicRates[j].date))
    => i = j

C30_EveryLineIsClassified ==
  \A data \in CsvData :
    LET acc == LoadOutcome(<<Header>> \o data)
        bad == {n \in DOMAIN data : ~WellFormed(data[n])}
        fresh == {ParseDate(data[n][1]) :
                    n \in {m \in DOMAIN data :
                             /\ WellFormed(data[m])
                             /\ RateFits(ParseFloat(data[m][2]))}}
                 \ ExistingDates(selicRates)
    IN /\ acc.loaded + acc.skipped + acc.errors = Len(data)
       /\ Len(acc.rates) = Len(selicRates) + acc.loaded
       /\ acc.loaded = Cardinality(fresh)
       /\ acc.errors >= Cardinality(bad)

\* C30 witness: a run over three lines that loaded one, skipped one and
\* counted one error.
C30_Witness ==
  /\ loadResult = [loaded |-> 1, skipped |-> 1, errors |-> 1]
  /\ Len(selicRates) >= 1

(* ---------------- the SELIC correction (CorrSpec) ---------------- *)
\* C22: with a valid principal, a bill date before the reference date and
\* rate data in range, the corrected amount is the principal times (1 + rate)
\* of every calendar month from the month of the bill date up to, but not
\* including, the month of the reference date (1000.00 at 1% for two months
\* gives 1020.10); the rate of a month is looked up as the handler does.
C22_CompoundsOverCalendarMonths ==
  [][\A bill \in CorrectionBills :
       ( /\ bill.total_amount > 0
         /\ bill.bill_date # Null
         /\ bill.bill_date < now
         /\ bill.id \in DOMAIN electricityBills
         /\ GetSelicRatesForPeriod(bill.bill_date, now) # <<>>
         /\ CalculateSelicCorrection(bill) )
       => LET first == YearOf(bill.bill_date) * 12 + MonthOf(bill.bill_date) - 1
              last == YearOf(now) * 12 + MonthOf(now) - 1
              months == [i \in 1..(last - first) |->
                           <<(first + i - 1) \div 12, (first + i - 1) % 12>>]
          IN /\ lastError' = "none"
             /\ electricityBills'[bill.id].corrected_amount =
                  NumericScale2(Compound(bill.total_amount, months,
                      GetSelicRatesForPeriod(bill.bill_date, now)))]_vars

\* C23: the rate applied to a month the correction goes through is the rate
\* the store holds for that calendar month, whatever the day of the entry and
\* the day of the bill date, and 0 only for a month without entry (stores with
\* one entry per month at most).
C23_StoredRateOfEachMonthIsApplied ==
  [][\A bill \in CorrectionBills :
       ( /\ bill.total_amount > 0
         /\ bill.bill_date # Null
         /\ bill.bill_date < now
         /\ bill.id \in DOMAIN electricityBills
         /\ GetSelicRatesForPeriod(bill.bill_date, now) # <<>>
         /\ \A i, j \in DOMAIN selicRates :
              MonthKey(selicRates[i].date) = MonthKey(selicRates[j].date)
                => i = j
         /\ CalculateSelicCorrection(bill) )
       => /\ lastError' = "none"
          /\ electricityBills'[bill.id].corrected_amount =
               NumericScale2(Compound(bill.total_amount,
                   WalkedMonths(bill.bill_date, now),
                   selicRates))]_vars

\* C24: for a bill date on or after the reference date the correction stores
\* exactly the principal and raises no error, whatever the rates, also for a
\* principal of 0.
C24_NoCorrectionFromReferenceDateOn ==
  [][\A bill \in CorrectionBills :
       ( /\ bill.total_amount >= 0
         /\ bill.bill_date # Null
         /\ bill.bill_date >= now
         /\ bill.id \in DOMAIN electricityBills
         /\ CalculateSelicCorrection(bill) )
       => /\ lastError' = "none"
          /\ electricityBills'[bill.id].corrected_amount =
               bill.total_amount]_vars

\* C25: when no stored rate lies between the bill date and the reference
\* date, the correction stores exactly the principal and raises no error.
C25_NoRateInRangeKeepsPrincipal ==
  [][\A bill \in CorrectionBills :
       ( /\ bill.total_amount >= 0
         /\ bill.bill_date # Null
         /\ bill.bill_date < now
         /\ bill.id \in DOMAIN electricityBills
         /\ GetSelicRatesForPeriod(bill.bill_date, now) = <<>>
         /\ CalculateSelicCorrection(bill) )
       => /\ lastError' = "none"
          /\ electricityBills'[bill.id].corrected_amount =
               bill.total_amount]_vars

\* C26: a negative or non-finite principal, or an absent bill date, makes the
\* correction of a stored bill fail with an invalid-input error and leaves the
\* bill records as they were.
C26_InvalidInputIsRejected ==
  [][\A bill \in CorrectionBills :
       ( /\ \/ bill.total_amount < 0
            \/ bill.total_amount = NaN
            \/ bill.bill_date = Null
         /\ bill.id \in DOMAIN electricityBills
         /\ CalculateSelicCorrection(bill) )
       => /\ lastError' = "invalid_input"
          /\ UNCHANGED electricityBills]_vars

\* C27: the corrected amount of a bill is a function of the principal, the
\* bill date and the rate series alone: as long as the rate store is the same,
\* the same bill gets the same amount, whatever the clock reads.
C27_NoHiddenClock ==
  [][\A bill \in CorrectionBills :
       (~MissingRequiredData(bill) /\ selicRates' = selicRates)
         => \A currentDate \in {now'} :
              CorrectionAt(bill, currentDate) = CorrectedAmount(bill)]_vars

(* ---------------- the rate query (QuerySpec) ---------------- *)
\* C31: getSelicRatesForPeriod(start, end) returns exactly the stored entries
\* with start <= date <= end, each once, by ascending date, and an empty
\* sequence, not an error, when there is none.
C31_RangeQueryIsExactAndOrdered ==
  response.op = "getSelicRatesForPeriod" =>
    LET rates == response.rates
        inRange == {i \in DOMAIN selicRates :
                      /\ response.startDate <= selicRates[i].date
                      /\ selicRates[i].date <= response.endDate}
    IN /\ lastError = "none"
       /\ Len(rates) = Cardinality(inRange)
       /\ {rates[k] : k \in DOMAIN rates} = {selicRates[i] : i \in inRange}
       /\ \A k \in 1..(Len(rates) - 1) : rates[k].date <= rates[k + 1].date

\* a store loaded out of date order, queried with its latest date as the end:
\* the two entries in range come back by date and the earlier one is left out
C31_Witness ==
  /\ response.op = "getSelicRatesForPeriod"
  /\ Len(selicRates) = 3
  /\ selicRates[1].date = Aug01
  /\ selicRates[2].date = Jul01
  /\ response.startDate = Jul15
  /\ response.endDate = Aug01
  /\ Len(response.rates) = 2
  /\ response.rates[2] = selicRates[1]

(* ---------------- status and report (ReportSpec) ---------------- *)
\* the sum of amount[id] over the bills ids, an absent amount counting 0
RECURSIVE Total(_, _)
Total(ids, amount) ==
  IF ids = {} THEN 0
  ELSE LET id == CHOOSE id \in ids : TRUE
       IN (IF amount[id] = Null THEN 0 ELSE amount[id])
            + Total(ids \ {id}, amount)

C33_UnsuccessfulBillsReportNoAmounts ==
  response.op \in {"generateReport", "getUploadStatus"} =>
    \A k \in DOMAIN response.bills :
      LET bill == response.bills[k] IN
      bill.extraction_status # "success" =>
        /\ bill.total_amount = 0
        /\ bill.energy_consumption = 0
        /\ bill.corrected_amount = Null

\* C36: a call of getUploadStatus or generateReport, whether it answers or
\* throws, leaves every batch, bill and rate record as it was.
C36_QueriesAreReadOnly ==
  [][\A input \in StatusInputs \cup ReportInputs :
       ( \/ input \in StatusInputs /\ GetUploadStatus(input)
         \/ input \in ReportInputs /\ GenerateReport(input) )
       => UNCHANGED <<uploadBatches, electricityBills, selicRates>>]_vars

\* a report taken while the batch is still processing, with a rate stored and
\* a bill whose amounts are still null
C36_Witness ==
  /\ response.op = "generateReport"
  /\ uploadBatches[response.upload_id].status = "processing"
  /\ uploadBatches[response.upload_id].processed_files = 1
  /\ Len(selicRates) = 1
  /\ \E id \in BillsOf(response.upload_id) :
       /\ electricityBills[id].extraction_status = "pending"
       /\ electricityBills[id].total_amount = Null

(* ---------------- frames of the two writers ---------------- *)
\* C34: updateBillResult leaves every field its input omits (total_amount,
\* energy_consumption, bill_date, corrected_amount, error_message) as it was
\* stored, and never changes filename, upload_id or created_at.
C34_OmittedFieldsAreKept ==
  [][\A input \in FieldInputs :
       (input.id \in DOMAIN electricityBills /\ UpdateBillResult(input))
       => LET before == electricityBills[input.id]
              after == electricityBills'[input.id]
          IN /\ input.total_amount = Undefined
                  => after.total_amount = before.total_amount
             /\ input.energy_consumption = Undefined
                  => after.energy_consumption = before.energy_consumption
             /\ input.bill_date = Undefined
                  => after.bill_date = before.bill_date
             /\ input.corrected_amount = Undefined
                  => after.corrected_amount = before.corrected_amount
             /\ input.error_message = UndefinedText
                  => after.error_message = before.error_message
             /\ after.filename = before.filename
             /\ after.upload_id = before.upload_id
             /\ after.created_at = before.created_at]_vars

\* a bill that was given all its values and then an error with a message:
\* the values the second input omits are still there
C34_Witness ==
  \E id \in DOMAIN electricityBills :
    /\ electricityBills[id].extraction_status = "error"
    /\ electricityBills[id].error_message = "Failed to extract data from PDF"
    /\ electricityBills[id].total_amount = 150750000
    /\ electricityBills[id].energy_consumption = 300500000
    /\ electricityBills[id].corrected_amount = 165250000

\* C35: updateUploadBatchProgress(b, s) changes processed_files, failed_files,
\* status and completed_at of batch b and nothing else: total_files, filename
\* and created_at of b, the other batches and the bills stay as they were.
C35_TrackerWritesItsCountersOnly ==
  [][\A uploadId \in UploadIds, isSuccess \in BOOLEAN :
       ( /\ uploadId \in DOMAIN uploadBatches
         /\ UpdateUploadBatchProgress(uploadId, isSuccess) )
       => /\ DOMAIN uploadBatches' = DOMAIN uploadBatches
          /\ uploadBatches'[uploadId].total_files =
               uploadBatches[uploadId].total_files
          /\ uploadBatches'[uploadId].filename =
               uploadBatches[uploadId].filename
          /\ uploadBatches'[uploadId].created_at =
               uploadBatches[uploadId].created_at
          /\ \A other \in DOMAIN uploadBatches \ {uploadId} :
               uploadBatches'[other] = uploadBatches[other]
          /\ electricityBills' = electricityBills]_vars

\* two batches with their bills, the first created a day before it was
\* completed by the tracker, the second not yet reported on
C35_Witness ==
  /\ Len(uploadBatches) = 2
  /\ Len(electricityBills) = 2
  /\ uploadBatches[1].total_files = 1
  /\ uploadBatches[1].processed_files = 1
  /\ uploadBatches[1].status = "completed"
  /\ uploadBatches[1].completed_at = uploadBatches[1].created_at + 1
  /\ uploadBatches[2].total_files = 1
  /\ uploadBatches[2].processed_files = 0
  /\ uploadBatches[2].status = "processing"

\* C37: the correction is by whole months: at a given reference date and rate
\* store, bills of the same principal whose dates lie in the same calendar
\* month get the same corrected amount, and the months gone through from a
\* bill date are consecutive calendar months starting with its own, whatever
\* its day.
C37_SameMonthSameCorrection ==
  LET bills == {bill \in CorrectionBills :
                  /\ bill.id = 1
                  /\ bill.total_amount = 1000000000
                  /\ bill.bill_date # Null}
  IN /\ \A b1, b2 \in bills :
          MonthKey(b1.bill_date) = MonthKey(b2.bill_date)
            => CorrectedAmount(b1) = CorrectedAmount(b2)
     /\ \A bill \in bills :
          LET months == WalkedMonths(bill.bill_date, now)
              first == YearOf(bill.bill_date) * 12 + MonthOf(bill.bill_date) - 1
          IN \A k \in DOMAIN months :
               months[k] = <<(first + k - 1) \div 12, (first + k - 1) % 12>>

====
